---- MODULE Spec2Model ----
(***************************************************************************)
(* Traffic-area derivation (analyse_traffic_area.get_traffic_areas_as_     *)
(* polygons) and undefined-space resolution (get_undefined_space.load) of  *)
(* osm-public-space-mapper.                                                *)
(*                                                                         *)
(* Units.  Widths are integers in thousandths of a coordinate unit         *)
(* (1.935 is 1935).  Geometry is the cross-section perpendicular to the    *)
(* ways: the axis is cut into cells of one tenth of a unit, an area is the *)
(* set of cells it covers, a line or a point is a position on the axis     *)
(* covering no cell.  A buffer of r tenths widens an area by r cells on    *)
(* each side; join and cap styles do not show in a cross-section.          *)
(***************************************************************************)
EXTENDS Integers, Sequences, FiniteSets, TLC

VARIABLES
    elements,                      \* the caller's list of OsmElement, mutated in place
    elements_at_call,              \* the same list as it was when the call started
    buildings,                     \* argument: list of building elements
    inaccessible_enclosed_areas,   \* argument: list of plain area geometries
    pc,                            \* position in get_traffic_areas_as_polygons
    i,                             \* position in the filtered list of the running pass
    highways_polygons,             \* polygonize_highways' local list
    rails_polygons,                \* polygonize_railways' local list
    next_id,                       \* identity of the next object allocated
    cropper_geometries_union,      \* line 271
    traffic_areas_cropped,         \* line 273
    returned,                      \* the value returned (None until the return)
    all_defined_space_lists,       \* load: argument, a list of lists of items
    bbox,                          \* load: bbox.geom_projected
    defined_space_geometries,      \* load: local list
    lpc,                           \* load: position
    li,                            \* load: index of the list being read
    lj,                            \* load: index of the item being read
    undefined_space                \* load: the value returned (None until the return)

tvars == <<elements, elements_at_call, buildings, inaccessible_enclosed_areas, pc, i,
           highways_polygons, rails_polygons, next_id, cropper_geometries_union,
           traffic_areas_cropped, returned>>
lvars == <<all_defined_space_lists, bbox, defined_space_geometries, lpc, li, lj,
           undefined_space>>
vars == <<tvars, lvars>>

\* Python's None, for attributes and results that hold a number or a geometry.
None == <<>>
Some(x) == <<x>>
Val(o) == o[1]

\* tags.get(key) of a key the element does not carry.
NoTag == "<absent>"

TagKeys ==
    {"highway", "railway", "crossing", "footway", "width", "width:carriageway",
     "lanes", "oneway", "cycleway", "cycleway:right", "cycleway:both", "cycleway:left"}

(***************************************************************************)
(* Bounds of the model.                                                    *)
(***************************************************************************)
\* Longest element list built from the representative kinds.
MaxElems == 2
\* Distance in tenths between the positions of consecutive elements.
Spacing == 3
\* Extent in tenths of an input polygon.
PolygonExtent == 30

(***************************************************************************)
(* OsmElement (utils/osm_element.py): the accessors the derivation uses.   *)
(***************************************************************************)
has_tag(e, key) == e.tags[key] # NoTag
tags_get(e, key) == e.tags[key]
is_linestring(e) == e.geom.type = "LineString"

(***************************************************************************)
(* float(): the strings of the model's tag vocabulary that Python parses,  *)
(* with their values in thousandths; any other string raises ValueError.   *)
(***************************************************************************)
FloatTable ==
    ("0" :> 0) @@ ("1" :> 1000) @@ ("2" :> 2000) @@ ("3" :> 3000) @@
    ("-1" :> -1000) @@ ("1.5" :> 1500) @@ ("5.5" :> 5500) @@ ("-2" :> -2000) @@
    ("7.25" :> 7250) @@ ("0.0" :> 0) @@ ("12" :> 12000)

Float(s) ==
    IF s \in DOMAIN FloatTable
    THEN [ok |-> TRUE, val |-> FloatTable[s]]
    ELSE [ok |-> FALSE, val |-> 0]

Ok(v) == [ok |-> TRUE, val |-> v]
Raised == [ok |-> FALSE, val |-> 0]

(***************************************************************************)
(* is_crossing, is_pedestrian_way (lines 12-24).                           *)
(***************************************************************************)
tags_with_crossing_values == {"footway", "highway"}

is_crossing(e) ==
    \/ has_tag(e, "crossing")
    \/ \E tag \in tags_with_crossing_values : tags_get(e, tag) = "crossing"

highway_for_pedestrians ==
    {"footway", "steps", "path", "platform", "pedestrian", "living_street", "track"}

is_pedestrian_way(e) ==
    /\ tags_get(e, "highway") \in highway_for_pedestrians
    /\ ~(tags_get(e, "footway") = "crossing")

(***************************************************************************)
(* set_defaults (lines 62-110): the tables used when the caller passes     *)
(* none.  A pair is <<bi-directional, uni-directional>>.                   *)
(***************************************************************************)
highway_default_widths ==
    ("footway" :> <<1800, 1000>>) @@ ("service" :> <<4500, 3000>>) @@
    ("residential" :> <<4500, 3000>>) @@ ("steps" :> <<2000, 1500>>) @@
    ("tertiary" :> <<4800, 3100>>) @@ ("primary" :> <<5500, 3100>>) @@
    ("cycleway" :> <<2000, 1500>>) @@ ("secondary" :> <<4800, 3100>>) @@
    ("path" :> <<1500, 1000>>) @@ ("motorway_link" :> <<6500, 3230>>) @@
    ("platform" :> <<2000, 1500>>) @@ ("pedestrian" :> <<2000, 2000>>) @@
    ("motorway" :> <<6500, 3250>>) @@ ("living_street" :> <<4500, 3000>>) @@
    ("unclassified" :> <<4500, 3000>>) @@ ("primary_link" :> <<5500, 3100>>) @@
    ("track" :> <<3000, 2500>>) @@ ("corridor" :> <<2000, 1000>>) @@
    ("proposed" :> <<4800, 3100>>) @@ ("secondary_link" :> <<4800, 3100>>) @@
    ("construction" :> <<5500, 3100>>) @@ ("everything else" :> <<4800, 3100>>)

cyclelane_width == 1600
cycletrack_width == 1600

cycleway_default_widths ==
    ("cycleway" :> (("lane" :> cyclelane_width) @@ ("opposite" :> 1000) @@
                    ("track" :> cycletrack_width) @@
                    ("opposite_lane" :> cyclelane_width) @@
                    ("opposite_track" :> cycletrack_width))) @@
    ("cycleway:right" :> (("lane" :> cyclelane_width) @@ ("track" :> cycletrack_width))) @@
    ("cycleway:both" :> (("lane" :> 2 * cyclelane_width) @@
                         ("track" :> 2 * cycletrack_width))) @@
    ("cycleway:left" :> (("lane" :> cyclelane_width) @@ ("track" :> cycletrack_width)))

\* The order in which a dict literal's keys are iterated.
cycleway_tag_order == <<"cycleway", "cycleway:right", "cycleway:both", "cycleway:left">>

\* add_parking's parameters (lines 151-152; the caller passes local_var's values).
highway_types_for_default_streetside_parking ==
    {"residential", "tertiary", "living_street", "secondary", "primary"}
default_parking_width == 6500

\* Railway parameters (lines 33-36).
tram_gauge == 1435
tram_buffer == 500
train_gauge == 1435
train_buffer == 1500
\* In tenths: pedestrian_way_default_width / 2 and the clearance around buildings.
pedestrian_way_buffer_size == 8
non_traffic_space_around_buildings_default_width == 13

(***************************************************************************)
(* estimate_road_width (lines 114-174).                                    *)
(***************************************************************************)
Direction(e) == IF has_tag(e, "oneway") THEN "uni-directional" ELSE "bi-directional"

\* set_default_highway_width always reading the bi-directional entry of the pair.
set_default_highway_width_bidirectional_only(e, direction) ==
    LET key == IF tags_get(e, "highway") \in DOMAIN highway_default_widths
               THEN tags_get(e, "highway")
               ELSE "everything else"
    IN  highway_default_widths[key][1]

set_default_highway_width(e, direction) ==
    LET idx == IF direction = "uni-directional" THEN 1 ELSE 0
        key == IF tags_get(e, "highway") \in DOMAIN highway_default_widths
               THEN tags_get(e, "highway")
               ELSE "everything else"
    IN  highway_default_widths[key][idx + 1]

\* Ok(width), or Raised when float() rejects the lanes tag.
adapt_to_lanes(e, width, direction) ==
    LET normal_lane_number == IF direction = "uni-directional" THEN 1 ELSE 2
        lanes == Float(tags_get(e, "lanes"))
    IN  IF ~has_tag(e, "lanes") THEN Ok(width)
        ELSE IF ~lanes.ok THEN Raised
        ELSE IF lanes.val # normal_lane_number * 1000
             THEN Ok((width * lanes.val) \div (normal_lane_number * 1000))
             ELSE Ok(width)

RECURSIVE CyclewaySum(_, _)
CyclewaySum(e, n) ==
    IF n = 0 THEN 0
    ELSE LET tag == cycleway_tag_order[n]
             add == IF has_tag(e, tag) /\ tags_get(e, tag) \in DOMAIN cycleway_default_widths[tag]
                    THEN cycleway_default_widths[tag][tags_get(e, tag)]
                    ELSE 0
         IN  CyclewaySum(e, n - 1) + add

add_cycleway(e, width) ==
    IF tags_get(e, "highway") \notin DOMAIN cycleway_default_widths
    THEN width + CyclewaySum(e, Len(cycleway_tag_order))
    ELSE width

add_parking(e, width) ==
    IF tags_get(e, "highway") \in highway_types_for_default_streetside_parking
    THEN width + default_parking_width
    ELSE width

\* estimate_road_width with the lane ratio applied after the cycleway and parking
\* additions instead of before them.
estimate_road_width_scaled_last(e) ==
    LET direction == Direction(e)
        base == set_default_highway_width(e, direction)
    IN  adapt_to_lanes(e, add_parking(e, add_cycleway(e, base)), direction)

estimate_road_width(e) ==
    LET direction == Direction(e)
        base == set_default_highway_width(e, direction)
        scaled == adapt_to_lanes(e, base, direction)
    IN  IF ~scaled.ok THEN Raised
        ELSE Ok(add_parking(e, add_cycleway(e, scaled.val)))

(***************************************************************************)
(* set_road_width (lines 176-181): Ok(width) or Raised.                    *)
(***************************************************************************)
\* set_road_width testing the width tag before width:carriageway.
set_road_width_width_first(e) ==
    IF has_tag(e, "width") THEN Float(tags_get(e, "width"))
    ELSE IF has_tag(e, "width:carriageway") THEN Float(tags_get(e, "width:carriageway"))
    ELSE estimate_road_width(e)

set_road_width(e) ==
    IF has_tag(e, "width:carriageway") THEN Float(tags_get(e, "width:carriageway"))
    ELSE IF has_tag(e, "width") THEN Float(tags_get(e, "width"))
    ELSE estimate_road_width(e)

(***************************************************************************)
(* Geometry in cross-section (shapely's buffer, union and difference).     *)
(***************************************************************************)
\* The cells of an area that touch its outside, and the outside cells that touch it.
InnerEdge(cells) == {k \in cells : (k - 1) \notin cells \/ (k + 1) \notin cells}
OuterEdge(cells) == {k + d : k \in InnerEdge(cells), d \in {-1, 1}} \ cells

\* buffer(r) and buffer(-r) of an area, r >= 0: every cell within r of the area, and
\* every cell of the area with no outside cell within r.
Dilate(cells, r) == cells \cup UNION {(k - r)..(k + r) : k \in InnerEdge(cells)}
Erode(cells, r) ==
    cells \ UNION {(k - r)..(k + r) : k \in OuterEdge(cells)}

\* geom.buffer(r): a new geometry object, identified by id.
Buffer(geom, r, id) ==
    [id |-> id, type |-> "Polygon", at |-> geom.at,
     cells |-> IF geom.type = "Polygon"
               THEN (IF r >= 0 THEN Dilate(geom.cells, r) ELSE Erode(geom.cells, -r))
               ELSE (IF r > 0 THEN (geom.at - r)..(geom.at + r - 1) ELSE {})]

\* shapely.ops.unary_union of the geometries of a list.
RECURSIVE unary_union(_)
unary_union(geoms) ==
    IF geoms = <<>> THEN {} ELSE Head(geoms) \cup unary_union(Tail(geoms))

GeomsOf(list) == [k \in 1..Len(list) |-> list[k].geom.cells]

\* round(width / 2), to whole units, in tenths.
RoundHalfToUnits(width) == {((width + 1000) \div 2000) * 10}

(***************************************************************************)
(* round(width / 2, 1), in tenths (line 39).  Python rounds the binary     *)
(* value of width / 2 to the nearest tenth.  A decimal tie n.x5 is an      *)
(* exact binary tie only for n.25 and n.75, which go to the even tenth;    *)
(* for the other ties the float nearest to n.x5 lies on either side of it, *)
(* so both tenths are possible outcomes.                                   *)
(***************************************************************************)
RoundHalfToTenths(width) ==
    LET lower == width \div 200
        rest == width % 200
    IN  IF rest < 100 THEN {lower}
        ELSE IF rest > 100 THEN {lower + 1}
        ELSE IF width % 1000 = 500
             THEN {IF lower % 2 = 0 THEN lower ELSE lower + 1}
             ELSE {lower, lower + 1}

\* buffer_osm_element without the deep copy: the buffer replaces the element's own geom.
buffer_osm_element_in_place(e, id) ==
    {[orig |-> [e EXCEPT !.geom = Buffer(e.geom, buffer_size, e.geom.id)],
      buffered |-> [e EXCEPT !.geom = Buffer(e.geom, buffer_size, e.geom.id)]] :
        buffer_size \in RoundHalfToTenths(Val(e.width))}

(***************************************************************************)
(* buffer_osm_element (lines 38-42): the possible results, each the        *)
(* element as the call leaves it and the buffered deep copy.               *)
(***************************************************************************)
buffer_osm_element(e, id) ==
    {[orig |-> e, buffered |-> [e EXCEPT !.geom = Buffer(e.geom, buffer_size, id)]] :
        buffer_size \in RoundHalfToTenths(Val(e.width))}

(***************************************************************************)
(* polygonize_highways (lines 183-199): what one iteration of the loop     *)
(* does to element e.  The possible outcomes: the element afterwards, the  *)
(* polygons appended, and whether set_road_width raised.                   *)
(***************************************************************************)
irrelevant_highway_tag_values == {"corridor", "proposed"}

is_irrelevant_highway(e) == tags_get(e, "highway") \in irrelevant_highway_tag_values

Outcome(e, polygons, raised) == [element |-> e, polygons |-> polygons, raised |-> raised]

polygonize_highway(e, id) ==
    IF is_pedestrian_way(e)
    THEN IF ~is_crossing(e)
         THEN {Outcome([e EXCEPT !.space_type = "walking area"], <<>>, FALSE)}
         ELSE {Outcome(e, <<>>, FALSE)}
    ELSE IF is_irrelevant_highway(e)
    THEN {Outcome([e EXCEPT !.space_type = "traffic area"], <<>>, FALSE)}
    ELSE IF is_linestring(e)
    THEN LET w == set_road_width(e)
         IN  IF ~w.ok THEN {Outcome(e, <<>>, TRUE)}
             ELSE {Outcome([b.orig EXCEPT !.space_type = "traffic area"],
                           <<b.buffered>>, FALSE) :
                       b \in buffer_osm_element([e EXCEPT !.width = Some(w.val)], id)}
    ELSE {Outcome([e EXCEPT !.space_type = "traffic area"], <<>>, FALSE)}

\* polygonize_railway treating every railway value but tram as rail, subway included.
polygonize_railway_every_value_gauged(e, id) ==
    LET railway == tags_get(e, "railway")
        ew == IF railway = "tram" THEN [e EXCEPT !.width = Some(tram_gauge + tram_buffer)]
              ELSE [e EXCEPT !.width = Some(train_gauge + train_buffer)]
        label(x) == IF ~(railway = "platform")
                    THEN [x EXCEPT !.space_type = "traffic area"]
                    ELSE x
    IN  IF railway # "platform"
        THEN {Outcome(label(b.orig), <<b.buffered>>, FALSE) : b \in buffer_osm_element(ew, id)}
        ELSE {Outcome(label(e), <<>>, FALSE)}

(***************************************************************************)
(* polygonize_railways (lines 214-224): one iteration of the loop.         *)
(***************************************************************************)
polygonize_railway(e, id) ==
    LET railway == tags_get(e, "railway")
        ew == IF railway = "tram" THEN [e EXCEPT !.width = Some(tram_gauge + tram_buffer)]
              ELSE IF railway = "rail"
                   THEN [e EXCEPT !.width = Some(train_gauge + train_buffer)]
                   ELSE e
        label(x) == IF ~(railway = "platform")
                    THEN [x EXCEPT !.space_type = "traffic area"]
                    ELSE x
    IN  IF railway \in {"tram", "rail"}
        THEN {Outcome(label(b.orig), <<b.buffered>>, FALSE) : b \in buffer_osm_element(ew, id)}
        ELSE {Outcome(label(ew), <<>>, FALSE)}

\* The lists the two loops iterate (lines 188 and 215), as positions in elements.
Positions == [k \in 1..Len(elements) |-> k]
HasHighway(k) == has_tag(elements[k], "highway")
IsRailwayLine(k) == is_linestring(elements[k]) /\ has_tag(elements[k], "railway")
highway_elements == SelectSeq(Positions, HasHighway)
railway_elements == SelectSeq(Positions, IsRailwayLine)

(***************************************************************************)
(* get_cropper_geometries (lines 240-244) and the set operations           *)
(* (lines 265-274).                                                        *)
(***************************************************************************)
\* utils/helpers.py buffer_list_of_elements: buffered copies of the elements.
buffer_list_of_elements(list, buffer_size) ==
    [k \in 1..Len(list) |-> [list[k] EXCEPT !.geom = Buffer(list[k].geom, buffer_size, 0)]]

IsPedestrianWay(e) == is_pedestrian_way(e)
IsPlatform(e) == tags_get(e, "railway") = "platform"

\* The elements line 240 buffers as pedestrian ways.
pedestrian_ways == SelectSeq(elements, IsPedestrianWay)

get_cropper_geometries ==
    LET pedestrian_ways_buffered ==
            buffer_list_of_elements(pedestrian_ways, pedestrian_way_buffer_size)
        buildings_buffered ==
            buffer_list_of_elements(buildings,
                                    non_traffic_space_around_buildings_default_width)
        platforms == SelectSeq(elements, IsPlatform)
    IN  GeomsOf(pedestrian_ways_buffered) \o GeomsOf(buildings_buffered)
            \o GeomsOf(platforms) \o inaccessible_enclosed_areas

\* Line 271: buffer(0.3).buffer(-0.3), in tenths.
cropper_tolerance == 3
\* Line 266: the two smoothing radii, in tenths.
smooth_mitre == 10
smooth_round == 5

pad_cropper_union(cells) == Erode(Dilate(cells, cropper_tolerance), cropper_tolerance)

smooth_traffic_areas(cells) ==
    Erode(Dilate(Erode(Dilate(cells, smooth_mitre), smooth_mitre), smooth_round),
          smooth_round)

(***************************************************************************)
(* The inputs of a call.                                                   *)
(***************************************************************************)
NoSpaceType == "None"

InputGeom(k, type) ==
    LET at == (k - 1) * Spacing
    IN  [id |-> k, type |-> type, at |-> at,
         cells |-> IF type = "Polygon" THEN at..(at + PolygonExtent - 1) ELSE {}]

Tags(over) == [key \in TagKeys |-> IF key \in DOMAIN over THEN over[key] ELSE NoTag]

Element(k, tags, type) ==
    [id |-> k, tags |-> tags, geom |-> InputGeom(k, type), width |-> None,
     space_type |-> NoSpaceType]

GeomTypes == {"Point", "LineString", "Polygon"}
HighwayValues ==
    ((DOMAIN highway_default_widths) \ {"everything else"}) \cup {"crossing", "trunk", NoTag}
RailwayValues == {NoTag, "tram", "rail", "subway", "platform"}

\* Combinations of the four cycleway tags: <<cycleway, :right, :both, :left>>.
CyclewayCombos ==
    {<<NoTag, NoTag, NoTag, NoTag>>, <<"lane", NoTag, NoTag, NoTag>>,
     <<"opposite", "track", NoTag, NoTag>>, <<"no", NoTag, "lane", NoTag>>,
     <<"track", "lane", "track", "lane">>}

CyclewayTags(c) ==
    ("cycleway" :> c[1]) @@ ("cycleway:right" :> c[2]) @@
    ("cycleway:both" :> c[3]) @@ ("cycleway:left" :> c[4])

\* Every combination of the tags and the geometry type that decide the labels.
ClassificationTags ==
    {Tags(("highway" :> h) @@ ("railway" :> r) @@ ("crossing" :> c) @@
          ("footway" :> f) @@ ("width" :> w)) :
        h \in HighwayValues, r \in RailwayValues, c \in {NoTag, "zebra"},
        f \in {NoTag, "crossing", "sidewalk"}, w \in {NoTag, "5.5"}}

\* Every combination of the tags that decide a line's width.
WidthTags ==
    {Tags(("highway" :> h) @@ ("railway" :> r) @@ ("footway" :> f) @@ ("width" :> w) @@
          ("width:carriageway" :> wc) @@ ("lanes" :> l) @@ ("oneway" :> o) @@
          CyclewayTags(c)) :
        h \in {"residential", "pedestrian", "cycleway", "motorway_link", "primary", "trunk"},
        r \in {NoTag, "tram"}, f \in {NoTag, "crossing"},
        w \in {NoTag, "0", "5.5", "-2", "wide"}, wc \in {NoTag, "7.25", "abc"},
        l \in {NoTag, "0", "1", "2", "3", "-1", "two"}, o \in {NoTag, "yes"},
        c \in CyclewayCombos}

\* The tag sets estimate_road_width is compared on with and without oneway.
EstimateTags ==
    {Tags(("highway" :> h) @@ ("footway" :> f) @@ ("lanes" :> l) @@ CyclewayTags(c)) :
        h \in HighwayValues \ {NoTag}, f \in {NoTag, "crossing"},
        l \in {NoTag, "0", "1", "2", "3", "-1"}, c \in CyclewayCombos}

\* Representative kinds, for lists of several elements.
RepresentativeKinds ==
    {<<Tags("highway" :> "residential"), "LineString">>,
     <<Tags(("highway" :> "residential") @@ ("width" :> "5.5")), "LineString">>,
     <<Tags(("highway" :> "primary") @@ ("lanes" :> "two")), "LineString">>,
     <<Tags("highway" :> "footway"), "LineString">>,
     <<Tags(("highway" :> "footway") @@ ("crossing" :> "zebra")), "LineString">>,
     <<Tags(("highway" :> "footway") @@ ("footway" :> "crossing")), "LineString">>,
     <<Tags("highway" :> "pedestrian"), "Polygon">>,
     <<Tags("highway" :> "corridor"), "LineString">>,
     <<Tags("highway" :> "crossing"), "Point">>,
     <<Tags("railway" :> "tram"), "LineString">>,
     <<Tags("railway" :> "platform"), "Polygon">>,
     <<Tags(("highway" :> "footway") @@ ("railway" :> "tram")), "LineString">>}

RECURSIVE ListsOver(_, _)
ListsOver(kinds, n) ==
    IF n = 0 THEN {<<>>}
    ELSE LET shorter == ListsOver(kinds, n - 1)
         IN  shorter \cup
             {Append(l, Element(Len(l) + 1, kind[1], kind[2])) :
                 l \in {x \in shorter : Len(x) = n - 1}, kind \in kinds}

SingleElementLists ==
    {<<Element(1, t, g)>> : t \in ClassificationTags, g \in GeomTypes}
        \cup {<<Element(1, t, "LineString")>> : t \in WidthTags}

OnewayPairLists ==
    {<<Element(1, [t EXCEPT !["oneway"] = "yes"], "LineString"),
       Element(2, t, "LineString")>> : t \in EstimateTags}

\* A building, and an inaccessible enclosed area, beside the ways.
BuildingLists ==
    {<<>>, <<[id |-> 0, tags |-> Tags(<<>>), geom |-> [id |-> 0, type |-> "Polygon", at |-> 70,
                                                       cells |-> 70..99],
              width |-> None, space_type |-> "building"]>>}
InaccessibleLists == {<<>>, <<(-90)..(-65)>>}

LoadIdle ==
    /\ all_defined_space_lists = <<>>
    /\ bbox = {}
    /\ defined_space_geometries = <<>>
    /\ lpc = "idle"
    /\ li = 1
    /\ lj = 1
    /\ undefined_space = None

Init ==
    /\ \/ /\ elements \in SingleElementLists \cup OnewayPairLists
          /\ buildings = <<>>
          /\ inaccessible_enclosed_areas = <<>>
       \/ /\ elements \in ListsOver(RepresentativeKinds, MaxElems)
          /\ buildings \in BuildingLists
          /\ inaccessible_enclosed_areas \in InaccessibleLists
    /\ elements_at_call = elements
    /\ pc = "polygonize_highways"
    /\ i = 1
    /\ highways_polygons = <<>>
    /\ rails_polygons = <<>>
    /\ next_id = Len(elements) + 1
    /\ cropper_geometries_union = None
    /\ traffic_areas_cropped = None
    /\ returned = None
    /\ LoadIdle

(***************************************************************************)
(* get_traffic_areas_as_polygons, step by step.                            *)
(***************************************************************************)
\* One iteration of the loop of lines 188-198.
PolygonizeHighwaysStep ==
    /\ pc = "polygonize_highways"
    /\ i <= Len(highway_elements)
    /\ LET k == highway_elements[i]
       IN  \E out \in polygonize_highway(elements[k], next_id) :
               /\ elements' = [elements EXCEPT ![k] = out.element]
               /\ highways_polygons' = highways_polygons \o out.polygons
               /\ next_id' = next_id + Len(out.polygons)
               /\ pc' = IF out.raised THEN "raised" ELSE pc
               /\ i' = i + 1
    /\ UNCHANGED <<elements_at_call, buildings, inaccessible_enclosed_areas,
                   rails_polygons, cropper_geometries_union, traffic_areas_cropped,
                   returned, lvars>>

\* Line 199, and the start of polygonize_railways (line 214).
PolygonizeHighwaysReturn ==
    /\ pc = "polygonize_highways"
    /\ i > Len(highway_elements)
    /\ pc' = "polygonize_railways"
    /\ i' = 1
    /\ UNCHANGED <<elements, elements_at_call, buildings, inaccessible_enclosed_areas,
                   highways_polygons, rails_polygons, next_id, cropper_geometries_union,
                   traffic_areas_cropped, returned, lvars>>

\* One iteration of the loop of lines 215-223.
PolygonizeRailwaysStep ==
    /\ pc = "polygonize_railways"
    /\ i <= Len(railway_elements)
    /\ LET k == railway_elements[i]
       IN  \E out \in polygonize_railway(elements[k], next_id) :
               /\ elements' = [elements EXCEPT ![k] = out.element]
               /\ rails_polygons' = rails_polygons \o out.polygons
               /\ next_id' = next_id + Len(out.polygons)
    /\ i' = i + 1
    /\ UNCHANGED <<elements_at_call, buildings, inaccessible_enclosed_areas, pc,
                   highways_polygons, cropper_geometries_union, traffic_areas_cropped,
                   returned, lvars>>

\* Line 224 and lines 270-271.
GetCropperGeometries ==
    /\ pc = "polygonize_railways"
    /\ i > Len(railway_elements)
    /\ cropper_geometries_union' =
           Some(pad_cropper_union(unary_union(get_cropper_geometries)))
    /\ pc' = "crop"
    /\ UNCHANGED <<elements, elements_at_call, buildings, inaccessible_enclosed_areas, i,
                   highways_polygons, rails_polygons, next_id, traffic_areas_cropped,
                   returned, lvars>>

\* get_traffic_areas' result (line 227).
traffic_areas == highways_polygons \o rails_polygons

\* Lines 272-273.
DifferenceFromCroppers ==
    /\ pc = "crop"
    /\ traffic_areas_cropped' =
           Some(unary_union(GeomsOf(traffic_areas)) \ Val(cropper_geometries_union))
    /\ pc' = "smooth"
    /\ UNCHANGED <<elements, elements_at_call, buildings, inaccessible_enclosed_areas, i,
                   highways_polygons, rails_polygons, next_id, cropper_geometries_union,
                   returned, lvars>>

\* Line 274.
SmoothAndReturn ==
    /\ pc = "smooth"
    /\ returned' = Some(smooth_traffic_areas(Val(traffic_areas_cropped)))
    /\ pc' = "returned"
    /\ UNCHANGED <<elements, elements_at_call, buildings, inaccessible_enclosed_areas, i,
                   highways_polygons, rails_polygons, next_id, cropper_geometries_union,
                   traffic_areas_cropped, lvars>>

Next ==
    \/ PolygonizeHighwaysStep
    \/ PolygonizeHighwaysReturn
    \/ PolygonizeRailwaysStep
    \/ GetCropperGeometries
    \/ DifferenceFromCroppers
    \/ SmoothAndReturn

Spec == Init /\ [][Next]_vars

(***************************************************************************)
(* get_undefined_space.load (lines 15-34).  An item of a list is an        *)
(* OsmElement, whose geometry is its geom attribute, or a plain geometry.  *)
(***************************************************************************)
\* Most lists in the mapping, and most items in a list.
MaxLists == 2
MaxItems == 2

ElementItem(cells) == [class |-> "OsmElement", geom |-> cells]
GeometryItem(cells) == [class |-> "Polygon", cells |-> cells]

ItemKinds == {ElementItem(1..2), ElementItem(3..6), GeometryItem(2..4)}
BoundingRegions == {0..5, 2..3}

RECURSIVE SeqsUpTo(_, _)
SeqsUpTo(S, n) ==
    IF n = 0 THEN {<<>>}
    ELSE LET shorter == SeqsUpTo(S, n - 1)
         IN  shorter \cup {Append(l, x) : l \in {y \in shorter : Len(y) = n - 1}, x \in S}

TrafficIdle ==
    /\ elements = <<>>
    /\ elements_at_call = <<>>
    /\ buildings = <<>>
    /\ inaccessible_enclosed_areas = <<>>
    /\ pc = "idle"
    /\ i = 1
    /\ highways_polygons = <<>>
    /\ rails_polygons = <<>>
    /\ next_id = 1
    /\ cropper_geometries_union = None
    /\ traffic_areas_cropped = None
    /\ returned = None

InitLoad ==
    /\ all_defined_space_lists \in SeqsUpTo(SeqsUpTo(ItemKinds, MaxItems), MaxLists)
    /\ bbox \in BoundingRegions
    /\ defined_space_geometries = <<>>
    /\ lpc = "items"
    /\ li = 1
    /\ lj = 1
    /\ undefined_space = None
    /\ TrafficIdle

\* Lines 28-31 with the else branch lost: a plain geometry contributes nothing.
defined_space_geometry_elements_only(e) == IF e.class = "OsmElement" THEN e.geom ELSE {}

\* Lines 28-31: the geometry an item contributes.
defined_space_geometry(e) == IF e.class = "OsmElement" THEN e.geom ELSE e.cells

\* One iteration of the inner loop (lines 27-31).
LoadItem ==
    /\ lpc = "items"
    /\ li <= Len(all_defined_space_lists)
    /\ lj <= Len(all_defined_space_lists[li])
    /\ defined_space_geometries' =
           Append(defined_space_geometries,
                  defined_space_geometry(all_defined_space_lists[li][lj]))
    /\ lj' = lj + 1
    /\ UNCHANGED <<all_defined_space_lists, bbox, lpc, li, undefined_space, tvars>>

\* The inner loop ends; the outer loop (line 26) takes the next list.
LoadNextList ==
    /\ lpc = "items"
    /\ li <= Len(all_defined_space_lists)
    /\ lj > Len(all_defined_space_lists[li])
    /\ li' = li + 1
    /\ lj' = 1
    /\ UNCHANGED <<all_defined_space_lists, bbox, defined_space_geometries, lpc,
                   undefined_space, tvars>>

\* Lines 32-34.
LoadReturn ==
    /\ lpc = "items"
    /\ li > Len(all_defined_space_lists)
    /\ undefined_space' = Some(bbox \ unary_union(defined_space_geometries))
    /\ lpc' = "returned"
    /\ UNCHANGED <<all_defined_space_lists, bbox, defined_space_geometries, li, lj, tvars>>

NextLoad ==
    \/ LoadItem
    \/ LoadNextList
    \/ LoadReturn

SpecLoad == InitLoad /\ [][NextLoad]_vars

(***************************************************************************)
(* Properties.                                                             *)
(***************************************************************************)
Returned == pc = "returned"
ElementPositions == 1..Len(elements)
HasPolygonFrom(k) ==
    \E n \in 1..Len(traffic_areas) : traffic_areas[n].id = elements[k].id
IsTransportation(e) == has_tag(e, "highway") \/ has_tag(e, "railway")
HasDeclaredWidth(e) == has_tag(e, "width:carriageway") \/ has_tag(e, "width")
DeclaredWidth(e) ==
    IF has_tag(e, "width:carriageway")
    THEN Float(tags_get(e, "width:carriageway"))
    ELSE Float(tags_get(e, "width"))
\* The railway pass gives the element its gauge-based width.
IsGaugedRailwayLine(e) == is_linestring(e) /\ tags_get(e, "railway") \in {"tram", "rail"}
\* A pedestrian highway type that is not a crossing, in the claims' words.
IsPedestrianNonCrossing(e) ==
    tags_get(e, "highway") \in highway_for_pedestrians /\ ~is_crossing(e)
\* Perpendicular extent of a polygon, in thousandths.
CorridorWidth(polygon) == Cardinality(polygon.geom.cells) * 100

\* C1: once get_traffic_areas_as_polygons has returned, every element carrying a
\* highway or a railway tag has a space_type.
C1_EveryTransportationElementLabelled ==
    Returned =>
        \A k \in ElementPositions :
            IsTransportation(elements[k]) => elements[k].space_type # NoSpaceType

\* C2: every width assigned to an element is strictly greater than zero.
C2_WidthsPositive ==
    \A k \in ElementPositions :
        elements[k].width # None => Val(elements[k].width) > 0

\* C3 as stated: every transportation element that has a width and a declared width
\* tag has exactly the parsed value of that tag as its width.
C3_DeclaredWidthAlwaysUsed ==
    Returned =>
        \A k \in ElementPositions :
            LET e == elements[k]
            IN  (IsTransportation(e) /\ e.width # None /\ HasDeclaredWidth(e)
                    /\ DeclaredWidth(e).ok)
                => Val(e.width) = DeclaredWidth(e).val

\* C3 amended: an element that has a width and a declared width tag, and is not a
\* tram or rail line, has exactly the parsed value of width:carriageway, or else of
\* width, as its width; a tram or rail line has its gauge plus buffer.
C3_DeclaredWidthUsedUnlessGauged ==
    \A k \in ElementPositions :
        LET e == elements[k]
        IN  /\ (e.width # None /\ HasDeclaredWidth(e) /\ ~IsGaugedRailwayLine(e))
                => (DeclaredWidth(e).ok /\ Val(e.width) = DeclaredWidth(e).val)
            /\ (Returned /\ IsGaugedRailwayLine(e))
                => Val(e.width) = (IF tags_get(e, "railway") = "tram"
                                   THEN tram_gauge + tram_buffer
                                   ELSE train_gauge + train_buffer)

C3_Witness ==
    /\ Returned
    /\ \E k \in ElementPositions :
           LET e == elements[k]
           IN  /\ tags_get(e, "highway") = "residential"
               /\ tags_get(e, "width:carriageway") = "7.25"
               /\ tags_get(e, "width") = "5.5"
               /\ has_tag(e, "lanes")
               /\ has_tag(e, "cycleway")
               /\ e.width = Some(7250)

\* Two elements whose tags differ in the oneway tag only, both with an estimated width.
EstimatedOnewayPair(j, k) ==
    /\ has_tag(elements[j], "oneway")
    /\ elements[k].tags = [elements[j].tags EXCEPT !["oneway"] = NoTag]
    /\ ~HasDeclaredWidth(elements[j])
    /\ ~IsGaugedRailwayLine(elements[j])
    /\ elements[j].width # None
    /\ elements[k].width # None

C5_PedestrianWayNeverTraffic ==
    Returned =>
        \A k \in ElementPositions :
            IsPedestrianNonCrossing(elements[k])
            => /\ elements[k].space_type = "walking area"
               /\ elements[k].width = None
               /\ ~HasPolygonFrom(k)

\* C6: when the highway pass has ended, every line of a pedestrian highway type that
\* is a crossing is a traffic area with a width and a candidate polygon.
C6_PedestrianCrossingIsTraffic ==
    (pc = "polygonize_railways" /\ i = 1) =>
        \A k \in ElementPositions :
            LET e == elements[k]
            IN  (/\ is_linestring(e)
                 /\ tags_get(e, "highway") \in highway_for_pedestrians
                 /\ is_crossing(e))
                => /\ e.space_type = "traffic area"
                   /\ e.width # None
                   /\ HasPolygonFrom(k)

\* C7: the tags and the geometry of every input element stay what they were at the
\* call, and no candidate polygon's geometry is the geometry object of an element.
C7_BufferingActsOnCopies ==
    /\ Len(elements) = Len(elements_at_call)
    /\ \A k \in ElementPositions :
           /\ elements[k].id = elements_at_call[k].id
           /\ elements[k].tags = elements_at_call[k].tags
           /\ elements[k].geom = elements_at_call[k].geom
    /\ \A n \in 1..Len(traffic_areas) :
           \A k \in ElementPositions : traffic_areas[n].geom.id # elements[k].geom.id

C7_Witness ==
    /\ Returned
    /\ Len(highways_polygons) >= 1
    /\ Len(rails_polygons) >= 1
    /\ \E k \in ElementPositions :
           /\ HasPolygonFrom(k)
           /\ elements[k].geom.type = "LineString"
           /\ elements[k].width # elements_at_call[k].width
           /\ elements[k].space_type # elements_at_call[k].space_type

\* C8 as stated: every candidate polygon is the line buffered by exactly half the
\* width, so its perpendicular extent is the width.
C8_BufferIsExactlyHalfWidth ==
    \A n \in 1..Len(traffic_areas) :
        CorridorWidth(traffic_areas[n]) = Val(traffic_areas[n].width)

\* C8 amended: the buffer is half the width rounded to one decimal, so the extent of
\* a candidate polygon of positive width is within 0.1 of the width and a whole
\* number of fifths; a width of zero or less gives an empty polygon.
C8_BufferIsHalfWidthRoundedToTenth ==
    \A n \in 1..Len(traffic_areas) :
        LET w == Val(traffic_areas[n].width)
            extent == CorridorWidth(traffic_areas[n])
        IN  /\ extent % 200 = 0
            /\ w > 0 => (extent - w <= 100 /\ w - extent <= 100)
            /\ w <= 0 => extent = 0

C8_Witness ==
    /\ Returned
    /\ \E n \in 1..Len(traffic_areas) :
           /\ traffic_areas[n].width = Some(tram_gauge + tram_buffer)
           /\ CorridorWidth(traffic_areas[n]) = 2000
    /\ \E n \in 1..Len(traffic_areas) :
           /\ traffic_areas[n].width = Some(11000)
           /\ CorridorWidth(traffic_areas[n]) = 11000

\* Largest overlap, in cells, that counts as none.
DisjointnessEpsilon == 1

\* C9: the area returned overlaps the padded union of the croppers by no more than
\* a small epsilon.
C9_SmoothedAreaAvoidsCroppers ==
    Returned =>
        Cardinality(Val(returned) \cap Val(cropper_geometries_union)) <= DisjointnessEpsilon

\* The geometry an item of the mapping stands for.
ItemCells(item) == IF item.class = "OsmElement" THEN item.geom ELSE item.cells
AllItems ==
    UNION {{all_defined_space_lists[a][b] : b \in 1..Len(all_defined_space_lists[a])} :
              a \in 1..Len(all_defined_space_lists)}
ClassifiedCells == UNION {ItemCells(item) : item \in AllItems}

\* C10: load returns a geometry, never None: the bounding region less every item's
\* geometry.  With the classified geometries it covers the bounding region, it
\* overlaps none of them, and it is the whole region when there are no items.
C10_UndefinedSpaceIsComplement ==
    lpc = "returned" =>
        /\ undefined_space # None
        /\ Val(undefined_space) = bbox \ ClassifiedCells
        /\ bbox \subseteq (Val(undefined_space) \cup ClassifiedCells)
        /\ \A item \in AllItems : Val(undefined_space) \cap ItemCells(item) = {}
        /\ AllItems = {} => Val(undefined_space) = bbox

C10_Witness ==
    /\ lpc = "returned"
    /\ Len(all_defined_space_lists) = 2
    /\ \E item \in AllItems : item.class = "OsmElement"
    /\ \E item \in AllItems : item.class = "Polygon" /\ ItemCells(item) \cap bbox # {}
    /\ undefined_space # None
    /\ Val(undefined_space) # {}
    /\ Val(undefined_space) # bbox

\* A highway element one of whose width, width:carriageway or lanes tags holds a value
\* float() rejects.
MalformedWidthKeys == {"width", "width:carriageway", "lanes"}
CarriesMalformedValue(e) ==
    /\ has_tag(e, "highway")
    /\ \E key \in MalformedWidthKeys : has_tag(e, key) /\ ~Float(tags_get(e, key)).ok

\* C11: a call on a collection in which some highway element carries a non-numeric
\* width, width:carriageway or lanes value never returns a geometry, whatever the
\* element's highway type, geometry type and other tags.
C11_MalformedValueNeverReturns ==
    Returned => \A k \in ElementPositions : ~CarriesMalformedValue(elements[k])

\* The width the claim C12 states for an element, in thousandths, written out term by
\* term: base of the type for the directionality, times lanes / assumed lanes, plus the
\* cycleway widths, plus the parking allowance.
C12_CyclewayTerm(e, tag) ==
    IF tags_get(e, tag) \in DOMAIN cycleway_default_widths[tag]
    THEN cycleway_default_widths[tag][tags_get(e, tag)]
    ELSE 0
C12_StatedWidth(e) ==
    LET type == tags_get(e, "highway")
        unidirectional == has_tag(e, "oneway")
        pair == IF type \in DOMAIN highway_default_widths
                THEN highway_default_widths[type]
                ELSE highway_default_widths["everything else"]
        base == IF unidirectional THEN pair[2] ELSE pair[1]
        assumed_lanes == IF unidirectional THEN 1 ELSE 2
        scaled == IF has_tag(e, "lanes")
                  THEN (base * Float(tags_get(e, "lanes")).val) \div (assumed_lanes * 1000)
                  ELSE base
        cycleways == IF type \in DOMAIN cycleway_default_widths THEN 0
                     ELSE C12_CyclewayTerm(e, "cycleway") + C12_CyclewayTerm(e, "cycleway:right")
                          + C12_CyclewayTerm(e, "cycleway:both")
                          + C12_CyclewayTerm(e, "cycleway:left")
        parking == IF type \in highway_types_for_default_streetside_parking
                   THEN default_parking_width
                   ELSE 0
    IN  scaled + cycleways + parking

\* The element's width is the one the highway pass estimated: a highway line without a
\* width tag that has a width, not yet given a gauge width by the railway pass.
HasEstimatedWidth(e) ==
    /\ has_tag(e, "highway")
    /\ is_linestring(e)
    /\ ~HasDeclaredWidth(e)
    /\ e.width # None
    /\ (pc = "polygonize_highways" \/ ~IsGaugedRailwayLine(e))
OnlyTagIsResidential(e) ==
    \A key \in TagKeys : tags_get(e, key) = (IF key = "highway" THEN "residential" ELSE NoTag)
\* Every road line without a width tag has been through the highway pass.
HighwayPassDone == pc \notin {"polygonize_highways", "raised"}
IsRoadLine(e) ==
    /\ has_tag(e, "highway")
    /\ is_linestring(e)
    /\ ~is_pedestrian_way(e)
    /\ ~is_irrelevant_highway(e)

\* C12: the width estimated for a highway line without width tags is the base width of
\* its type for its directionality, scaled by lanes / assumed lanes when a lanes tag is
\* present, plus the unscaled cycleway widths (none for a cycleway type) and the unscaled
\* parking allowance; a line tagged only highway=residential gets 11.0; and after the
\* highway pass every road line without width tags has such a width.
C12_EstimatedWidthAsStated ==
    \A k \in ElementPositions :
        LET e == elements[k]
        IN  /\ HasEstimatedWidth(e) => Val(e.width) = C12_StatedWidth(e)
            /\ (HasEstimatedWidth(e) /\ OnlyTagIsResidential(e)) => Val(e.width) = 11000
            /\ (HighwayPassDone /\ IsRoadLine(e) /\ ~HasDeclaredWidth(e)) => e.width # None

\* A oneway and a two-way residential line with three lanes and all four cycleway tags:
\* 3.0 * 3 / 1 + 8.0 + 6.5 and 4.5 * 3 / 2 + 8.0 + 6.5.
C12_Witness ==
    /\ Returned
    /\ Len(elements) = 2
    /\ \A k \in 1..2 :
          /\ tags_get(elements[k], "highway") = "residential"
          /\ tags_get(elements[k], "lanes") = "3"
          /\ tags_get(elements[k], "cycleway") = "track"
          /\ tags_get(elements[k], "cycleway:both") = "track"
    /\ has_tag(elements[1], "oneway")
    /\ ~has_tag(elements[2], "oneway")
    /\ elements[1].width = Some(23500)
    /\ elements[2].width = Some(21250)

\* The railway pass is about to run an iteration, or has run them all.
InRailwayIteration == pc = "polygonize_railways" /\ i <= Len(railway_elements)
RailwayPassDone == pc \in {"crop", "smooth", "returned"}
GaugeWidth(railway) ==
    IF railway = "tram" THEN tram_gauge + tram_buffer ELSE train_gauge + train_buffer

\* What one iteration of the railway pass does to the element it is at, to the other
\* elements and to the candidate polygons.
C13_RailwayIterationEffect ==
    InRailwayIteration =>
        LET k == railway_elements[i]
            e == elements[k]
            railway == tags_get(e, "railway")
        IN  /\ is_linestring(e)
            /\ has_tag(e, "railway")
            /\ \A j \in ElementPositions \ {k} : elements'[j] = elements[j]
            /\ elements'[k].tags = e.tags
            /\ elements'[k].geom = e.geom
            /\ elements'[k].width =
                   (IF railway \in {"tram", "rail"} THEN Some(GaugeWidth(railway)) ELSE e.width)
            /\ elements'[k].space_type =
                   (IF railway = "platform" THEN e.space_type ELSE "traffic area")
            /\ IF railway \in {"tram", "rail"}
               THEN /\ Len(rails_polygons') = Len(rails_polygons) + 1
                    /\ SubSeq(rails_polygons', 1, Len(rails_polygons)) = rails_polygons
                    /\ LET polygon == rails_polygons'[Len(rails_polygons')]
                       IN  /\ polygon.id = e.id
                           /\ polygon.geom.type = "Polygon"
                           /\ polygon.width = Some(GaugeWidth(railway))
               ELSE rails_polygons' = rails_polygons
            /\ highways_polygons' = highways_polygons

\* Once the railway pass is over it has visited every railway line and nothing else.
C13_RailwayPassResult ==
    RailwayPassDone =>
        /\ Len(rails_polygons) =
               Cardinality({k \in ElementPositions : IsGaugedRailwayLine(elements[k])})
        /\ \A k \in ElementPositions :
               LET e == elements[k]
               IN  /\ IsGaugedRailwayLine(e) =>
                          e.width = Some(GaugeWidth(tags_get(e, "railway")))
                   /\ (is_linestring(e) /\ has_tag(e, "railway")
                          /\ tags_get(e, "railway") # "platform")
                      => e.space_type = "traffic area"
                   /\ (has_tag(e, "railway") /\ ~has_tag(e, "highway") /\ ~is_linestring(e))
                      => e = elements_at_call[k]

\* C13: for every line with a railway tag the railway pass sets the width of a tram to
\* tram_gauge + tram_buffer and of a rail to train_gauge + train_buffer and appends
\* exactly one buffered polygon for it; any other railway value gets no polygon and no
\* width; every value but platform ends as 'traffic area' and a platform keeps its
\* space_type; railway elements that are not lines are left as they were.
C13_RailwayPassAsStated == [][C13_RailwayIterationEffect]_vars /\ []C13_RailwayPassResult

\* A footway line that is also a tram track has been visited, beside a platform area
\* the pass leaves alone.
C13_Witness ==
    /\ pc = "polygonize_railways"
    /\ i = 2
    /\ Len(elements) = 2
    /\ tags_get(elements[1], "railway") = "tram"
    /\ is_linestring(elements[1])
    /\ elements[1].width = Some(1935)
    /\ elements[1].space_type = "traffic area"
    /\ Len(rails_polygons) = 1
    /\ tags_get(elements[2], "railway") = "platform"
    /\ ~is_linestring(elements[2])
    /\ elements[2] = elements_at_call[2]

\* The positions of the elements buffered as pedestrian-way croppers, and of the
\* elements labelled 'walking area'.
PedestrianCropperPositions ==
    {k \in ElementPositions : \E n \in 1..Len(pedestrian_ways) : pedestrian_ways[n] = elements[k]}
WalkingAreaPositions == {k \in ElementPositions : elements[k].space_type = "walking area"}
HighwayPassJustDone == pc = "polygonize_railways" /\ i = 1

\* C14: no crossing (explicit crossing tag, or footway or highway equal to 'crossing')
\* is buffered as a pedestrian-way cropper, and the elements buffered as pedestrian-way
\* croppers are exactly those the highway pass labels 'walking area'.
C14_PedestrianCroppersAreWalkingAreas ==
    HighwayPassJustDone =>
        /\ \A k \in PedestrianCropperPositions : ~is_crossing(elements[k])
        /\ PedestrianCropperPositions = WalkingAreaPositions

\* C15: when get_traffic_areas_as_polygons raises it returns no geometry, and every
\* input element, those iterated before the failing one included, has the width and
\* the space_type it had before the call.
C15_FailureLeavesElementsUntouched ==
    pc = "raised" =>
        /\ returned = None
        /\ \A k \in ElementPositions :
               /\ elements[k].width = elements_at_call[k].width
               /\ elements[k].space_type = elements_at_call[k].space_type

====
